---------------------------- MODULE Spec2Model ----------------------------
(***************************************************************************)
(* A model of the Anvil playground page: the server-side batch balance     *)
(* fetch of src/app/page.tsx and the two client components                 *)
(* src/components/TokenBalances.tsx and src/components/NFTBalances.tsx.    *)
(*                                                                         *)
(* Conventions.                                                            *)
(*  - A JavaScript string read character by character (addresses, hex      *)
(*    payloads, formatted amounts) is the sequence of its characters.  A   *)
(*    printable ASCII character, TAB, LF, FF or CR is the string of that   *)
(*    one character; any other code point is the string of its name, such  *)
(*    as "U+00A0" or "U+00E9", so that the module is plain ASCII.          *)
(*  - A string built by String.fromCharCode (symbol, name) is the sequence *)
(*    of its char codes; "?" is <<63>>.                                    *)
(*  - A value that may be null or undefined is Null (the empty set) or     *)
(*    Some(v) (the singleton of v).                                        *)
(*  - A bigint parsed from text is kept as its sign and digits, and a      *)
(*    number made of a bigint as a finite integer or Infinity.  The values *)
(*    computed with are TLC integers, so the payloads whose value is used  *)
(*    are chosen below 2^31.                                               *)
(***************************************************************************)
EXTENDS Integers, Sequences, FiniteSets, TLC

Null == {}
Some(v) == {v}
IsNull(o) == o = {}
Val(o) == CHOOSE v \in o : TRUE

(***************************************************************************)
(* Characters and strings.                                                 *)
(***************************************************************************)
Rep(c, n) == [i \in 1..n |-> c]

SubStr(s, from, to) ==
    \* s.slice(from, to) with 0-based from, exclusive to, both clamped.
    LET lo == IF from > Len(s) THEN Len(s) ELSE from
        hi == IF to > Len(s) THEN Len(s) ELSE to
    IN  IF hi <= lo THEN <<>> ELSE [i \in 1..(hi - lo) |-> s[lo + i]]

UpperLetters ==
    <<"A","B","C","D","E","F","G","H","I","J","K","L","M",
      "N","O","P","Q","R","S","T","U","V","W","X","Y","Z">>
LowerLetters ==
    <<"a","b","c","d","e","f","g","h","i","j","k","l","m",
      "n","o","p","q","r","s","t","u","v","w","x","y","z">>

\* c.toLowerCase() of one character, as a table over the capital letters of
\* ASCII: the sources lowercase only text that has passed isAddress.
LowerOf == [c \in { UpperLetters[i] : i \in 1..26 } |->
                LowerLetters[CHOOSE i \in 1..26 : UpperLetters[i] = c]]

ToLowerChar(c) == IF c \in DOMAIN LowerOf THEN LowerOf[c] ELSE c

ToLowerCase(s) == [i \in 1..Len(s) |-> ToLowerChar(s[i])]

\* The code points String.prototype.trim, BigInt(string) and parseInt strip:
\* WhiteSpace and LineTerminator of ECMAScript, 25 in all.  TAB, LF, FF, CR and
\* SPACE are written as themselves, the others by their code point.
WhiteSpace ==
    {"\t", "\n", "U+000B", "\f", "\r", " ", "U+00A0", "U+1680",
     "U+2000", "U+2001", "U+2002", "U+2003", "U+2004", "U+2005", "U+2006",
     "U+2007", "U+2008", "U+2009", "U+200A", "U+2028", "U+2029", "U+202F",
     "U+205F", "U+3000", "U+FEFF"}

RECURSIVE TrimStart(_)
TrimStart(s) ==
    IF s # <<>> /\ s[1] \in WhiteSpace THEN TrimStart(Tail(s)) ELSE s

RECURSIVE TrimEnd(_)
TrimEnd(s) ==
    IF s # <<>> /\ s[Len(s)] \in WhiteSpace
    THEN TrimEnd(SubSeq(s, 1, Len(s) - 1))
    ELSE s

Trim(s) == TrimEnd(TrimStart(s))

StartsWith(s, p) == Len(s) >= Len(p) /\ SubSeq(s, 1, Len(p)) = p

PadStart(s, n, c) ==
    IF Len(s) >= n THEN s ELSE Rep(c, n - Len(s)) \o s

DecDigits == <<"0","1","2","3","4","5","6","7","8","9">>
HexLower == <<"a","b","c","d","e","f">>
HexUpper == <<"A","B","C","D","E","F">>

DecDigitSet == { DecDigits[i] : i \in 1..10 }
HexDigitSet == DecDigitSet \cup { HexLower[i] : i \in 1..6 } \cup { HexUpper[i] : i \in 1..6 }

IsDecDigit(c) == c \in DecDigitSet
IsHexDigit(c) == c \in HexDigitSet

DigitVal(c) ==
    IF c \in DecDigitSet THEN (CHOOSE i \in 1..10 : DecDigits[i] = c) - 1
    ELSE 9 + (CHOOSE i \in 1..6 : HexLower[i] = c \/ HexUpper[i] = c)

IsDigitOf(c, radix) == IsHexDigit(c) /\ DigitVal(c) < radix

\* The number the digits s denote in the radix, halving so that long runs of
\* digits stay shallow; a power of the radix is taken only for a non-zero half.
RECURSIVE DigitsValue(_, _)
DigitsValue(s, radix) ==
    IF s = <<>> THEN 0
    ELSE IF Len(s) = 1 THEN DigitVal(s[1])
    ELSE LET cut == Len(s) \div 2
             high == DigitsValue(SubSeq(s, 1, cut), radix)
             low == DigitsValue(SubSeq(s, cut + 1, Len(s)), radix)
         IN  IF high = 0 THEN low ELSE high * radix^(Len(s) - cut) + low

AllDigits(s, radix) == \A i \in 1..Len(s) : IsDigitOf(s[i], radix)

RECURSIVE NatToString(_)
NatToString(n) ==
    IF n < 10 THEN <<DecDigits[n + 1]>>
    ELSE NatToString(n \div 10) \o <<DecDigits[(n % 10) + 1]>>

\* bigint.prototype.toString()
BigIntToString(n) == IF n < 0 THEN <<"-">> \o NatToString(-n) ELSE NatToString(n)


(***************************************************************************)
(* JavaScript built-ins the sources rely on.                               *)
(***************************************************************************)
HexPrefix == <<"0", "x">>

\* BigInt(string): StringToBigInt of ECMAScript.  ok = FALSE is the SyntaxError;
\* the bigint is kept as its sign and its digits in the radix of the literal.
StringToBigInt(str) ==
    LET t == Trim(str)
        radixOf(c) == CASE c \in {"x", "X"} -> 16
                        [] c \in {"o", "O"} -> 8
                        [] c \in {"b", "B"} -> 2
                        [] OTHER -> 0
        prefixed == Len(t) >= 2 /\ t[1] = "0" /\ radixOf(t[2]) # 0
        signed == t # <<>> /\ t[1] \in {"+", "-"}
        body == IF prefixed THEN SubSeq(t, 3, Len(t))
                ELSE IF signed THEN Tail(t) ELSE t
        radix == IF prefixed THEN radixOf(t[2]) ELSE 10
    IN  IF t = <<>> THEN [ok |-> TRUE, negative |-> FALSE, digits |-> <<>>, radix |-> 10]
        ELSE IF body = <<>> \/ ~AllDigits(body, radix)
        THEN [ok |-> FALSE, negative |-> FALSE, digits |-> <<>>, radix |-> 10]
        ELSE [ok |-> TRUE, negative |-> ~prefixed /\ signed /\ t[1] = "-",
              digits |-> body, radix |-> radix]

\* The integer a bigint is.
BigIntValue(b) ==
    IF b.negative THEN 0 - DigitsValue(b.digits, b.radix) ELSE DigitsValue(b.digits, b.radix)

RECURSIVE BitsOfNat(_)
BitsOfNat(n) == IF n = 0 THEN <<>> ELSE BitsOfNat(n \div 2) \o <<n % 2>>

\* The bits of the digits of a radix 2^width, most significant first.
DigitBits(digits, width) ==
    [k \in 1..(Len(digits) * width) |->
        (DigitVal(digits[((k - 1) \div width) + 1]) \div 2^(width - 1 - ((k - 1) % width))) % 2]

StripLeadingZeros(bits) ==
    LET ones == { k \in 1..Len(bits) : bits[k] = 1 }
    IN  IF ones = {} THEN <<>>
        ELSE SubSeq(bits, CHOOSE k \in ones : \A j \in ones : k <= j, Len(bits))

RECURSIVE BitsValue(_)
BitsValue(bits) ==
    IF bits = <<>> THEN 0 ELSE BitsValue(SubSeq(bits, 1, Len(bits) - 1)) * 2 + bits[Len(bits)]

\* The binary digits of the magnitude of a bigint, without leading zeros.
MagnitudeBits(b) ==
    CASE b.radix = 16 -> StripLeadingZeros(DigitBits(b.digits, 4))
      [] b.radix = 8 -> StripLeadingZeros(DigitBits(b.digits, 3))
      [] b.radix = 2 -> StripLeadingZeros(DigitBits(b.digits, 1))
      [] OTHER -> BitsOfNat(DigitsValue(b.digits, 10))

\* The number 0.
NumberZero == [finite |-> TRUE, value |-> 0]

DoublePrecision == 53
DoubleMaxBits == 1024

\* Number(bigint): the nearest double, ties to even, and Infinity (finite =
\* FALSE) from 2^1024 - 2^970 on.
NumberOfBigInt(b) ==
    LET bits == MagnitudeBits(b)
        n == Len(bits)
        kept == SubSeq(bits, 1, DoublePrecision)
        half == \A k \in (DoublePrecision + 2)..n : bits[k] = 0
        up == bits[DoublePrecision + 1] = 1 /\ (~half \/ bits[DoublePrecision] = 1)
        carry == up /\ \A k \in 1..DoublePrecision : bits[k] = 1
        magnitude == (BitsValue(kept) + (IF up THEN 1 ELSE 0)) * 2^(n - DoublePrecision)
    IN  IF n <= DoublePrecision THEN [finite |-> TRUE, value |-> BigIntValue(b)]
        ELSE IF n + (IF carry THEN 1 ELSE 0) > DoubleMaxBits THEN [finite |-> FALSE, value |-> 0]
        ELSE [finite |-> TRUE, value |-> IF b.negative THEN 0 - magnitude ELSE magnitude]

RECURSIVE HexRun(_)
HexRun(s) ==
    \* the longest prefix of s made of hex digits
    IF s # <<>> /\ IsHexDigit(s[1]) THEN <<s[1]>> \o HexRun(Tail(s)) ELSE <<>>

\* parseInt(s, 16): Null is NaN.
ParseInt16(s) ==
    LET t == TrimStart(s)
        signed == t # <<>> /\ t[1] \in {"+", "-"}
        u == IF signed THEN Tail(t) ELSE t
        v == IF Len(u) >= 2 /\ u[1] = "0" /\ u[2] \in {"x", "X"}
             THEN SubSeq(u, 3, Len(u)) ELSE u
        run == HexRun(v)
    IN  IF run = <<>> THEN Null
        ELSE Some(IF signed /\ t[1] = "-" THEN 0 - DigitsValue(run, 16)
                  ELSE DigitsValue(run, 16))

\* The code unit String.fromCharCode makes of one argument (ToUint16; NaN is 0).
CharCode(v) == IF IsNull(v) THEN 0 ELSE Val(v) % 65536

QuestionMark == <<63>>

(***************************************************************************)
(* Pure helpers of the components.                                         *)
(***************************************************************************)
AddrHexLen == 40

isAddress(addr) ==
    /\ Len(addr) = 2 + AddrHexLen
    /\ StartsWith(addr, HexPrefix)
    /\ \A i \in 3..Len(addr) : IsHexDigit(addr[i])

WordHexLen == 64

pad32(hexNo0x) == PadStart(hexNo0x, WordHexLen, "0")

SelectorBalanceOf == <<"7","0","a","0","8","2","3","1">>
SelectorDecimals == <<"3","1","3","c","e","5","6","7">>
SelectorSymbol == <<"9","5","d","8","9","b","4","1">>
SelectorName == <<"0","6","f","d","d","e","0","3">>

encodeBalanceOf(address) ==
    LET lower == ToLowerCase(address)
        addr == IF StartsWith(lower, HexPrefix) THEN SubSeq(lower, 3, Len(lower)) ELSE lower
    IN  HexPrefix \o SelectorBalanceOf \o pad32(addr)

encodeDecimals == HexPrefix \o SelectorDecimals
encodeSymbol == HexPrefix \o SelectorSymbol
encodeName == HexPrefix \o SelectorName

hexToBigInt(hex) == StringToBigInt(hex)

RECURSIVE Bytes32Run(_)
Bytes32Run(bytes) ==
    \* the loop of the bytes32 branch: char codes up to the first byte that is 0
    IF bytes = <<>> THEN <<>>
    ELSE LET v == ParseInt16(SubStr(bytes, 0, 2))
         IN  IF v = Some(0) THEN <<>>
             ELSE <<CharCode(v)>> \o Bytes32Run(SubStr(bytes, 2, Len(bytes)))

\* The loop of the dynamic branch: one char code per two hex characters, and
\* one for a single character left at the end.
BytesOf(bytesHex) ==
    [k \in 1..((Len(bytesHex) + 1) \div 2) |->
        CharCode(ParseInt16(SubStr(bytesHex, 2 * (k - 1), 2 * k)))]

\* String.fromCharCode(...arr) passes every element of arr as an argument of
\* its own, and the engine raises a RangeError when it does not take that
\* many.  How many it takes is the engine's choice and, where the arguments
\* go on the stack, depends on the room left there at the call: no one number
\* separates the two outcomes.  Up to SpreadArgumentsFit arguments every
\* engine takes (JavaScriptCore refuses more than 65536), beyond
\* SpreadArgumentsMax none does (SpiderMonkey refuses more than 500000, V8
\* with its default stack about 125000), and in between the call does either.
SpreadArgumentsFit == 65535

SpreadArgumentsMax == 500000

\* Whether a spread call of n arguments can return, as a set: TRUE for
\* returning, FALSE for the RangeError.
SpreadOutcomes(n) ==
    IF n <= SpreadArgumentsFit THEN {TRUE}
    ELSE IF n > SpreadArgumentsMax THEN {FALSE}
    ELSE BOOLEAN

\* The bytesHex of the dynamic branch.  data.slice(start, start + len * 2)
\* ends where the data ends: a len of more binary digits than the length of
\* the data, Infinity included, gives all that is left.
DynamicBytesHex(data) ==
    LET len == StringToBigInt(HexPrefix \o SubStr(data, WordHexLen, 2 * WordHexLen))
        start == 2 * WordHexLen
    IN  IF ~len.ok THEN <<>>
        ELSE IF Len(MagnitudeBits(len)) > Len(BitsOfNat(Len(data)))
        THEN SubStr(data, start, Len(data))
        ELSE SubStr(data, start, start + NumberOfBigInt(len).value * 2)

\* The outcomes the call String.fromCharCode(...arr) of the decoder can have
\* for the payload hex.  The bytes32 branch passes 32 arguments at most.
FromCharCodeOutcomes(hex) ==
    IF hex = <<>> \/ ~StartsWith(hex, HexPrefix) \/ Len(hex) = 2 + WordHexLen
    THEN {TRUE}
    ELSE SpreadOutcomes((Len(DynamicBytesHex(SubStr(hex, 2, Len(hex)))) + 1) \div 2)

\* The decoder shared by both components from its bytes32 branch on; readOffset
\* tells whether the offset word is parsed too (TokenBalances) or not (NFTBalances);
\* fits is the outcome of the spread call, one of FromCharCodeOutcomes(hex).
\* Every throw inside the try block is caught and gives null.
DecodeAbiString(hex, readOffset, fits) ==
    IF hex = <<>> \/ ~StartsWith(hex, HexPrefix) THEN Null
    ELSE LET data == SubStr(hex, 2, Len(hex))
             offset == StringToBigInt(HexPrefix \o SubStr(data, 0, WordHexLen))
             len == StringToBigInt(HexPrefix \o SubStr(data, WordHexLen, 2 * WordHexLen))
         IN  IF Len(data) = WordHexLen
             THEN LET arr == Bytes32Run(data)
                  IN  IF arr = <<>> THEN Null ELSE Some(arr)
             ELSE IF (readOffset /\ ~offset.ok) \/ ~len.ok THEN Null
             ELSE IF ~fits THEN Null
             ELSE Some(BytesOf(DynamicBytesHex(data)))

tryDecodeStringFromAbi(hex, fits) == DecodeAbiString(hex, TRUE, fits)

nftTryDecodeStringFromAbi(hex, fits) == DecodeAbiString(hex, FALSE, fits)

\* bigint division and remainder truncate towards zero.
TruncDiv(a, b) == IF a < 0 THEN 0 - ((0 - a) \div b) ELSE a \div b
TruncRem(a, b) == a - b * TruncDiv(a, b)

\* s.replace(/0+$/g, "")
TrimTrailingZeros(s) ==
    LET keep == { i \in 1..Len(s) : s[i] # "0" }
    IN  IF keep = {} THEN <<>>
        ELSE SubSeq(s, 1, CHOOSE i \in keep : \A j \in keep : j <= i)

\* 10n ** BigInt(decimals) raises a RangeError (Maximum BigInt size exceeded)
\* when the engine cannot hold the power: a bigint holds 2^30 bits, and the
\* engine refuses every exponent from 323228484 on, before it has computed
\* anything.  This is the largest exponent it takes.
MaxPow10Exponent == 323228483

\* formatUnits without the padStart of the fraction
formatUnitsNoPad(wei, decimals) ==
    IF decimals <= 0 THEN [ok |-> TRUE, value |-> BigIntToString(wei)]
    ELSE IF decimals > MaxPow10Exponent THEN [ok |-> FALSE, value |-> <<>>]
    ELSE LET small == Len(NatToString(IF wei < 0 THEN 0 - wei ELSE wei)) <= decimals
             whole == IF small THEN 0 ELSE TruncDiv(wei, 10^decimals)
             frac == IF small THEN wei ELSE TruncRem(wei, 10^decimals)
             trimmed == TrimTrailingZeros(BigIntToString(frac))
         IN  [ok |-> TRUE,
              value |-> IF Len(trimmed) > 0
                        THEN BigIntToString(whole) \o <<".">> \o trimmed
                        ELSE BigIntToString(whole)]

\* TLC's integers are 32 bits wide: 10^decimals is computed only when the amount
\* has more than decimals digits, and otherwise the quotient is 0 and the
\* remainder is the amount itself.
formatUnits(wei, decimals) ==
    IF decimals <= 0 THEN [ok |-> TRUE, value |-> BigIntToString(wei)]
    ELSE IF decimals > MaxPow10Exponent THEN [ok |-> FALSE, value |-> <<>>]
    ELSE LET small == Len(NatToString(IF wei < 0 THEN 0 - wei ELSE wei)) <= decimals
             whole == IF small THEN 0 ELSE TruncDiv(wei, 10^decimals)
             frac == IF small THEN wei ELSE TruncRem(wei, 10^decimals)
             fracStr == PadStart(BigIntToString(frac), decimals, "0")
             trimmed == TrimTrailingZeros(fracStr)
         IN  [ok |-> TRUE,
              value |-> IF Len(trimmed) > 0
                        THEN BigIntToString(whole) \o <<".">> \o trimmed
                        ELSE BigIntToString(whole)]

(***************************************************************************)
(* The JSON-RPC exchange of one rpcCall.  A response is what the transport *)
(* and the node give back: the fetch rejects, or an HTTP status comes with *)
(* a body whose error and result fields may each be absent.                *)
(***************************************************************************)
RpcResponse(kind, status, err, result) ==
    [kind |-> kind, status |-> status, error |-> err, result |-> result]

HttpOk(status) == status >= 200 /\ status <= 299

\* `RPC HTTP error ${res.status}`
HttpErrorMessage(status) == "RPC HTTP error " \o ToString(status)

rpcCall(resp) ==
    IF resp.kind = "reject"
    THEN [ok |-> FALSE, result |-> <<>>, message |-> "Failed to fetch"]
    ELSE IF ~HttpOk(resp.status)
    THEN [ok |-> FALSE, result |-> <<>>, message |-> HttpErrorMessage(resp.status)]
    ELSE IF ~IsNull(resp.error)
    THEN [ok |-> FALSE, result |-> <<>>, message |-> Val(resp.error)]
    ELSE IF IsNull(resp.result)
    THEN [ok |-> FALSE, result |-> <<>>, message |-> "Empty RPC result"]
    ELSE [ok |-> TRUE, result |-> Val(resp.result), message |-> ""]


(***************************************************************************)
(* The state.  One run exercises one unit of the page, named by focus:     *)
(* the server-side fetchBalances of Home, or one of the two client         *)
(* components, whose state variables are the useState cells of the         *)
(* component, the localStorage item it persists to, and the promises it    *)
(* is awaiting.  The cells hold every update made so far, applied in the   *)
(* order they were made; `rendered` holds the cells as the last committed  *)
(* render computed them, which is what the screen shows and what the       *)
(* closures of the handlers and effects of that render read.               *)
(* An update made by an effect or after an await is rendered in a later    *)
(* task, and the effects of that render run in a later task again; a       *)
(* response, a user event or a reload may come between any two tasks.      *)
(* A user event is one task: the handler runs, the effects still pending   *)
(* are run, a render is committed and its effects run.  Which updates that *)
(* render takes is the React build's choice, and the source names no       *)
(* version: a build that keeps the lane of a user event apart (React 18.0  *)
(* to 18.2) renders the updates the handler made and leaves those that     *)
(* wait for a later task where they are; a build with the unified sync     *)
(* lane (React 19) renders every update made so far.  unifiedSyncLane      *)
(* tells which build a run has; both are explored.                         *)
(* A run of a component is one of two kinds of session:                    *)
(*  - "registry": the page is opened with nothing stored, and the user     *)
(*    registers and removes tokens and switches tabs, leaving the wallet   *)
(*    fields alone;                                                        *)
(*  - "balances": the page is opened over a registry stored by an earlier  *)
(*    session, and the user edits the wallet fields, switches tabs,        *)
(*    refreshes and removes tokens, leaving the token address field empty. *)
(***************************************************************************)
VARIABLES
    focus,          \* "Home", "TokenBalances" or "NFTBalances"
    session,        \* what the user of a component does in this run, see below
    unifiedSyncLane,\* the React build renders, with the updates of a user event,
                    \* those waiting for a later task as well
    tokenInput,     \* useState tokenInput
    tokens,         \* useState tokens: sequence of TokenMeta / NftMeta
    activeAddr,     \* useState activeAddr: Null or Some(address)
    walletByToken,  \* useState walletByToken: address -> text
    balances,       \* useState balances: lowercase address -> Null or Some(text)
    error,          \* useState error: Null or Some(message)
    loadingToken,   \* useState loadingToken
    isRefreshing,   \* useState isRefreshing
    updatedAt,      \* useState updatedAt: Null or Some(time)
    storage,        \* localStorage[STORAGE_KEY]: Null or Some(token list)
    registration,   \* the addToken call awaiting an RPC response: Null or Some(record)
    refreshes,      \* the refresh calls awaiting their RPC response, oldest first
    overtaken,      \* history: overtaken[i] iff a refresh of the same token started
                    \* after refreshes[i] has already resolved and written
    rendered,       \* the cells as the last committed render saw them: what the
                    \* closures of its handlers and effects read
    passive,        \* the effects of the last commit still to run: Null, or
                    \* Some of the commit before it, whose dependencies they compare
    homePending,    \* Home: renders asked for (the page opened, router.refresh())
                    \* that have not called fetchBalances yet
    fbCalls,        \* Home: the arguments of the fetchBalances calls whose batch is
                    \* unanswered, oldest first
    loading,        \* RefreshPageButton: useState loading
    resetTimers,    \* RefreshPageButton: the setTimeout callbacks still to run
    fbAddresses,    \* history: the argument of the fetchBalances call that returned
                    \* in the last step, <<>> when none did
    fbReply,        \* history: what the transport gave back to its batch
    fbResult,       \* history: the array it returned
    lastCall        \* the helper applied on its own last: its name, argument and result

compVars == <<tokenInput, tokens, activeAddr, walletByToken, balances, error,
              loadingToken, isRefreshing, updatedAt, storage, registration,
              refreshes, overtaken, rendered, passive>>
pageVars == <<homePending, fbCalls, loading, resetTimers, fbAddresses, fbReply, fbResult>>
vars == <<focus, session, unifiedSyncLane, compVars, pageVars, lastCall>>

\* Date.now(): the model keeps no clock, every reading is the same instant.
Now == "now"

EmptyMap == [k \in {} |-> Null]
MapPut(m, k, v) == [x \in (DOMAIN m) \cup {k} |-> IF x = k THEN v ELSE m[x]]
MapDel(m, k) == [x \in (DOMAIN m) \ {k} |-> m[x]]

\* The useState cells and awaited promises of a component, as one record.
View ==
    [tokenInput |-> tokenInput, tokens |-> tokens, activeAddr |-> activeAddr,
     walletByToken |-> walletByToken, balances |-> balances, error |-> error,
     loadingToken |-> loadingToken, isRefreshing |-> isRefreshing,
     updatedAt |-> updatedAt, storage |-> storage, registration |-> registration,
     refreshes |-> refreshes, overtaken |-> overtaken]

Commit(S) ==
    /\ tokenInput' = S.tokenInput
    /\ tokens' = S.tokens
    /\ activeAddr' = S.activeAddr
    /\ walletByToken' = S.walletByToken
    /\ balances' = S.balances
    /\ error' = S.error
    /\ loadingToken' = S.loadingToken
    /\ isRefreshing' = S.isRefreshing
    /\ updatedAt' = S.updatedAt
    /\ storage' = S.storage
    /\ registration' = S.registration
    /\ refreshes' = S.refreshes
    /\ overtaken' = S.overtaken

InitialView ==
    [tokenInput |-> <<>>, tokens |-> <<>>, activeAddr |-> Null,
     walletByToken |-> EmptyMap, balances |-> EmptyMap, error |-> Null,
     loadingToken |-> FALSE, isRefreshing |-> FALSE, updatedAt |-> Null,
     storage |-> Null, registration |-> Null, refreshes |-> <<>>, overtaken |-> <<>>]

(***************************************************************************)
(* Render-time values and the effects of a component.                      *)
(***************************************************************************)
SameAddress(a, b) == ToLowerCase(a) = ToLowerCase(b)

\* tokens.find((t) => t.address.toLowerCase() === addr.toLowerCase()): the index, or 0
FindToken(toks, addr) ==
    LET key == ToLowerCase(addr)
        keys == [i \in 1..Len(toks) |-> ToLowerCase(toks[i].address)]
        hits == { i \in 1..Len(toks) : keys[i] = key }
    IN  IF hits = {} THEN 0 ELSE CHOOSE i \in hits : \A j \in hits : i <= j

\* walletByToken[key] || ""
WalletText(S, key) ==
    IF key \in DOMAIN S.walletByToken THEN S.walletByToken[key] ELSE <<>>

activeWallet(S) ==
    IF IsNull(S.activeAddr) THEN <<>> ELSE WalletText(S, Val(S.activeAddr))

validWallet(S) == isAddress(activeWallet(S))

\* The dependency list of the refresh callback.
RefreshDeps(S) == <<S.tokens, validWallet(S), activeWallet(S), S.activeAddr>>

\* The useState cells of a view.
Cells(S) ==
    [tokenInput |-> S.tokenInput, tokens |-> S.tokens, activeAddr |-> S.activeAddr,
     walletByToken |-> S.walletByToken, balances |-> S.balances, error |-> S.error,
     loadingToken |-> S.loadingToken, isRefreshing |-> S.isRefreshing,
     updatedAt |-> S.updatedAt]

\* The view S with the cells C in place of its own.
WithCells(S, C) ==
    [S EXCEPT !.tokenInput = C.tokenInput, !.tokens = C.tokens,
              !.activeAddr = C.activeAddr, !.walletByToken = C.walletByToken,
              !.balances = C.balances, !.error = C.error,
              !.loadingToken = C.loadingToken, !.isRefreshing = C.isRefreshing,
              !.updatedAt = C.updatedAt]

\* One call of refresh() up to its first await: R is the render whose closure
\* the callback is, L the cells its updates apply to.
\* The flag `cancelled` is a local of the call; the function that would set it
\* is the value the returned promise resolves to, which no caller reads.
refresh(R, L) ==
    LET i == IF IsNull(R.activeAddr) THEN 0 ELSE FindToken(R.tokens, Val(R.activeAddr))
    IN  IF IsNull(R.activeAddr) \/ i = 0
        THEN [L EXCEPT !.isRefreshing = FALSE]
        ELSE IF ~validWallet(R)
        THEN [L EXCEPT !.balances = MapPut(@, ToLowerCase(Val(R.activeAddr)), Null),
                       !.updatedAt = Some(Now),
                       !.isRefreshing = FALSE]
        ELSE [L EXCEPT !.isRefreshing = TRUE,
                       !.refreshes = Append(@, [meta |-> R.tokens[i],
                                                wallet |-> activeWallet(R),
                                                cancelled |-> FALSE]),
                       !.overtaken = Append(@, FALSE)]

\* the active-tab effect without its first branch: no tab is picked while
\* activeAddr is null
ActiveTabEffectStaleOnly(R, L) ==
    IF ~IsNull(R.activeAddr) /\ FindToken(R.tokens, Val(R.activeAddr)) = 0
    THEN [L EXCEPT !.activeAddr = IF Len(R.tokens) > 0 THEN Some(R.tokens[1].address)
                                  ELSE Null]
    ELSE L

\* The effect that keeps the active tab valid, run in render R.
ActiveTabEffect(R, L) ==
    IF IsNull(R.activeAddr) /\ Len(R.tokens) > 0
    THEN [L EXCEPT !.activeAddr = Some(R.tokens[1].address)]
    ELSE IF ~IsNull(R.activeAddr) /\ FindToken(R.tokens, Val(R.activeAddr)) = 0
    THEN [L EXCEPT !.activeAddr = IF Len(R.tokens) > 0 THEN Some(R.tokens[1].address)
                                  ELSE Null]
    ELSE L

\* The load effect: if (raw) setTokens(JSON.parse(raw)).
LoadEffect(L) ==
    IF IsNull(L.storage) THEN L ELSE [L EXCEPT !.tokens = Val(L.storage)]

\* The persist effect: localStorage.setItem(STORAGE_KEY, JSON.stringify(tokens)).
PersistEffect(R, L) == [L EXCEPT !.storage = Some(R.tokens)]

\* The effects of the commit of render R, in declaration order.  On mount all of
\* them run; afterwards those whose dependencies differ from the render before.
Effects(mount, before, R, L) ==
    LET loaded == IF mount THEN LoadEffect(L) ELSE L
        persisted == IF mount \/ R.tokens # before.tokens
                     THEN PersistEffect(R, loaded) ELSE loaded
        tabbed == IF mount \/ <<R.tokens, R.activeAddr>> # <<before.tokens, before.activeAddr>>
                  THEN ActiveTabEffect(R, persisted) ELSE persisted
    IN  IF mount \/ RefreshDeps(R) # RefreshDeps(before)
        THEN refresh(R, tabbed) ELSE tabbed

(***************************************************************************)
(* Bounds and input sets.                                                  *)
(***************************************************************************)
MaxInFlight == 2    \* refresh calls awaiting a response at the same time
MaxBatch == 2       \* length of the address list given to fetchBalances
MaxReply == 3       \* length of the response array of a batch
MaxTokens == 2      \* entries of a registry
MaxRenders == 2     \* renders of Home under way, and timers of its button, at the same time

Components == {"TokenBalances", "NFTBalances"}

AddrA == HexPrefix \o Rep("a", AddrHexLen)
AddrAUpper == HexPrefix \o Rep("A", AddrHexLen)
AddrB == HexPrefix \o Rep("b", AddrHexLen)

\* What the user types into the token address field.
TypedTokenInputs ==
    IF session = "registry"
    THEN {AddrA, AddrAUpper, <<"\f">> \o AddrB \o <<" ">>}
    ELSE {}

Wallet1 == HexPrefix \o Rep("1", AddrHexLen)

\* What the user types into the wallet field of the active tab.
TypedWallets ==
    IF session = "balances"
    THEN {<<" ">> \o Wallet1, <<"0", "x", "1", "2">>}
    ELSE {}

\* Transport and node failures of one call.
RpcFailures ==
    { RpcResponse("reject", 0, Null, Null),
      RpcResponse("http", 500, Null, Null),
      RpcResponse("body", 200, Some("execution reverted"), Null),
      RpcResponse("body", 200, Null, Null) }

RpcResult(hex) == RpcResponse("body", 200, Null, Some(hex))

Word(hexDigits) == HexPrefix \o pad32(hexDigits)

\* An ABI-encoded dynamic string: offset word, length word, data.
DynString(lenHex, dataHex) == HexPrefix \o pad32(<<"2", "0">>) \o pad32(lenHex) \o dataHex

\* The chain the node serves.  The contract at AddrA is a well-formed token:
\* its calls return full words, its name an ABI string and its symbol a bytes32.
\* The contract at AddrB is not: decimals() returns 2^31 - 1, a string of five
\* words (a number beyond every double) or no data,
\* its strings declare 3 bytes and carry 1 or are no data at all, and
\* balanceOf() returns a short 0 or no data.
WellFormed(to) == SameAddress(to, AddrA)

DecimalsPayloads(to) ==
    IF WellFormed(to)
    THEN { Word(<<"1", "2">>) }
    ELSE { <<"0", "x", "7", "f", "f", "f", "f", "f", "f", "f">>,
           DynString(<<"6", "0">>, Rep("4", 3 * WordHexLen)),
           HexPrefix }

NamePayloads(to) ==
    IF WellFormed(to)
    THEN { DynString(<<"3">>, <<"4","1","4","2","4","3">> \o Rep("0", WordHexLen - 6)) }
    ELSE { DynString(<<"3">>, <<"4","1">>), HexPrefix }

SymbolPayloads(to) ==
    IF WellFormed(to)
    THEN { HexPrefix \o <<"5","5","5","3","4","4","4","3">> \o Rep("0", WordHexLen - 8) }
    ELSE { DynString(<<"3">>, <<"4","1">>), HexPrefix }

BalancePayloads(to) ==
    IF WellFormed(to)
    THEN { Word(<<"0">>), Word(<<"5", "d", "c">>) }
    ELSE { <<"0", "x", "0">>, HexPrefix }

Responses(payloads) == RpcFailures \cup { RpcResult(h) : h \in payloads }

(***************************************************************************)
(* The handlers of a component.                                            *)
(***************************************************************************)
ErrInvalidAddress == "invalid address"
ErrAlreadyRegistered == "already registered"
ErrMetaFailed == "metadata lookup failed"
ErrBigIntSyntax == "Cannot convert to BigInt"

\* tokens.find((t) => t.address.toLowerCase() === addr.toLowerCase()) of addToken
IsRegistered(toks, addr) == FindToken(toks, addr) # 0

\* addToken up to its first await: R is the render whose closure the callback
\* is, L the cells its updates apply to.
addToken(R, L) ==
    LET addr == Trim(R.tokenInput)
        cleared == [L EXCEPT !.error = Null]
    IN  IF ~isAddress(addr)
        THEN [cleared EXCEPT !.error = Some(ErrInvalidAddress)]
        ELSE IF IsRegistered(R.tokens, addr)
        THEN [cleared EXCEPT !.error = Some(ErrAlreadyRegistered)]
        ELSE [cleared EXCEPT
                !.loadingToken = TRUE,
                !.registration =
                    Some([address |-> addr,
                          awaiting |-> IF focus = "TokenBalances" THEN "decimals" ELSE "name",
                          decimals |-> NumberZero,
                          name |-> QuestionMark])]

\* catch and finally of addToken: e?.message || the default message
addTokenFailed(S, message) ==
    [S EXCEPT !.error = Some(IF message = "" THEN ErrMetaFailed ELSE message),
              !.loadingToken = FALSE,
              !.registration = Null]

\* The rest of addToken once the metadata promise is fulfilled with meta.
addTokenDone(S, meta) ==
    [S EXCEPT !.tokens = Append(@, meta),
              !.tokenInput = <<>>,
              !.activeAddr = Some(meta.address),
              !.loadingToken = FALSE,
              !.registration = Null]

\* Number.isFinite(decimals) ? decimals : 18
FiniteOr18(decimals) == IF decimals.finite THEN decimals.value ELSE 18

\* The decimals part of getTokenMeta: the call's outcome, then Number(hexToBigInt(...)).
decimalsOf(resp) ==
    LET r == rpcCall(resp)
        d == hexToBigInt(r.result)
    IN  IF ~r.ok THEN [ok |-> FALSE, decimals |-> NumberZero, message |-> r.message]
        ELSE IF ~d.ok THEN [ok |-> FALSE, decimals |-> NumberZero, message |-> ErrBigIntSyntax]
        ELSE [ok |-> TRUE, decimals |-> NumberOfBigInt(d), message |-> ""]

\* A best-effort string field: "?" unless the call succeeds and the decoder
\* gives a non-empty string.
bestEffort(resp, decoded) ==
    IF rpcCall(resp).ok /\ ~IsNull(decoded) /\ Val(decoded) # <<>>
    THEN Val(decoded)
    ELSE QuestionMark

symbolOf(resp, fits) ==
    bestEffort(resp, tryDecodeStringFromAbi(rpcCall(resp).result, fits))

nftFieldOf(resp, fits) ==
    bestEffort(resp, nftTryDecodeStringFromAbi(rpcCall(resp).result, fits))

\* The outcomes the spread call of the decoder can have for the response resp;
\* the decoder is not called for a call that failed.
DecoderOutcomes(resp) ==
    IF rpcCall(resp).ok THEN FromCharCodeOutcomes(rpcCall(resp).result) ELSE {TRUE}

removeToken(S, addr) ==
    [S EXCEPT
        !.tokens = SelectSeq(@, LAMBDA t : ~SameAddress(t.address, addr)),
        !.balances = MapDel(@, ToLowerCase(addr)),
        !.walletByToken = MapDel(@, addr),
        !.activeAddr = IF ~IsNull(@) /\ SameAddress(Val(@), addr) THEN Null ELSE @]

RemoveAt(seq, i) == SubSeq(seq, 1, i - 1) \o SubSeq(seq, i + 1, Len(seq))

\* What a refresh call computes from the response to its balanceOf request:
\* Null when the call, hexToBigInt or formatUnits throws.
balanceText(resp, meta) ==
    LET r == rpcCall(resp)
        raw == hexToBigInt(r.result)
        formatted == IF focus = "TokenBalances"
                     THEN formatUnits(BigIntValue(raw), meta.decimals)
                     ELSE [ok |-> TRUE, value |-> BigIntToString(BigIntValue(raw))]
    IN  IF r.ok /\ raw.ok /\ formatted.ok THEN Some(formatted.value) ELSE Null

\* The rest of refresh call i once its RPC promise is settled with resp.
refreshResolved(S, i, resp) ==
    LET rec == S.refreshes[i]
        key == ToLowerCase(rec.meta.address)
        written == IF rec.cancelled THEN S
                   ELSE [S EXCEPT !.balances = MapPut(@, key, balanceText(resp, rec.meta)),
                                  !.updatedAt = Some(Now),
                                  !.isRefreshing = FALSE]
        marks == [j \in 1..Len(S.refreshes) |->
                    \/ S.overtaken[j]
                    \/ /\ j < i
                       /\ ~rec.cancelled
                       /\ ToLowerCase(S.refreshes[j].meta.address) = key]
    IN  [written EXCEPT !.refreshes = RemoveAt(S.refreshes, i),
                        !.overtaken = RemoveAt(marks, i)]

\* The tab panel of render R is there: it has an active address whose token it finds.
PanelShown(R) == ~IsNull(R.activeAddr) /\ FindToken(R.tokens, Val(R.activeAddr)) # 0

\* The token t of the panel of render R.
ActiveToken(R) == R.tokens[FindToken(R.tokens, Val(R.activeAddr))]

\* The last commit with the parts of the view that are no cells.
Screen == WithCells(View, rendered)

\* Updates wait for a render.
UpdatesPending == rendered # Cells(View)

\* The effects of the last commit that are still pending run over the view S.
Flushed(S) ==
    IF IsNull(passive) THEN S
    ELSE Effects(Val(passive).mount, Val(passive).before, rendered, S)

\* The render committed in the task of a user event.  S is the view and C the
\* last commit, each after the updates of the handler.  The render is C, or
\* with the unified sync lane the cells with every update made so far, those
\* of the effects just run included.
Committed(S, C) == IF unifiedSyncLane THEN Cells(Flushed(S)) ELSE C

\* The view at the end of the task of a user event: the effects still pending
\* have run, then those of the render committed.
Task(S, C) == Effects(FALSE, rendered, Committed(S, C), Flushed(S))

\* A user event.  S is the view and C the last commit, each after the updates
\* of the handler; changes tells whether one of them gives its cell another
\* value than the screen shows.  When none does and no update is waiting, no
\* render is asked for.  Otherwise the effects still pending run, a render is
\* committed in place of the last one and its effects run, all in the task of
\* the event.
Handle(S, C, changes) ==
    IF ~changes /\ ~UpdatesPending
    THEN UNCHANGED vars
    ELSE /\ \E L \in { Task(S, C) } :
             /\ Len(L.refreshes) <= MaxInFlight
             /\ Commit(L)
         /\ rendered' = Committed(S, C)
         /\ passive' = Null
         /\ UNCHANGED <<focus, session, unifiedSyncLane, pageVars, lastCall>>

\* The continuation of an awaited call, leaving the view S: its updates wait
\* for a later render.
Resume(S) ==
    /\ Commit(S)
    /\ UNCHANGED <<focus, session, unifiedSyncLane, rendered, passive, pageVars, lastCall>>

\* onChange of the token address field: setTokenInput(e.target.value.trim()).
SetTokenInput(v) ==
    /\ focus \in Components
    /\ Handle([View EXCEPT !.tokenInput = Trim(v)],
              [rendered EXCEPT !.tokenInput = Trim(v)],
              Trim(v) # rendered.tokenInput)

\* onClick of the add button, which is disabled while loadingToken is shown.
AddToken ==
    /\ focus \in Components
    /\ ~rendered.loadingToken
    /\ IsNull(addToken(rendered, View).registration) \/ Len(tokens) < MaxTokens
    /\ Handle(addToken(rendered, View), Cells(addToken(rendered, Screen)), TRUE)

RpcDecimals(resp) ==
    /\ focus = "TokenBalances"
    /\ ~IsNull(registration)
    /\ Val(registration).awaiting = "decimals"
    /\ LET d == decimalsOf(resp)
       IN  IF d.ok
           THEN Resume([View EXCEPT !.registration =
                          Some([Val(registration) EXCEPT !.awaiting = "symbol",
                                                         !.decimals = d.decimals])])
           ELSE Resume(addTokenFailed(View, d.message))

RpcName(resp) ==
    /\ focus = "NFTBalances"
    /\ ~IsNull(registration)
    /\ Val(registration).awaiting = "name"
    /\ \E fits \in DecoderOutcomes(resp) :
         Resume([View EXCEPT !.registration =
                    Some([Val(registration) EXCEPT !.awaiting = "symbol",
                                                   !.name = nftFieldOf(resp, fits)])])

RpcSymbol(resp) ==
    /\ focus \in Components
    /\ ~IsNull(registration)
    /\ Val(registration).awaiting = "symbol"
    /\ \E fits \in DecoderOutcomes(resp) :
         LET reg == Val(registration)
             meta == IF focus = "TokenBalances"
                     THEN [address |-> reg.address, symbol |-> symbolOf(resp, fits),
                           decimals |-> FiniteOr18(reg.decimals)]
                     ELSE [address |-> reg.address, name |-> reg.name,
                           symbol |-> nftFieldOf(resp, fits)]
         IN  Resume(addTokenDone(View, meta))

\* onClick of tab i of the tabs shown: setActiveAddr(t.address).
SelectTab(i) ==
    /\ focus \in Components
    /\ i \in 1..Len(rendered.tokens)
    /\ Handle([View EXCEPT !.activeAddr = Some(rendered.tokens[i].address)],
              [rendered EXCEPT !.activeAddr = Some(rendered.tokens[i].address)],
              Some(rendered.tokens[i].address) # rendered.activeAddr)

\* onClick of the delete button of the panel: removeToken(t.address).
RemoveToken ==
    /\ focus \in Components
    /\ PanelShown(rendered)
    /\ Handle(removeToken(View, ActiveToken(rendered).address),
              Cells(removeToken(Screen, ActiveToken(rendered).address)),
              TRUE)

\* onChange of the wallet field of the panel.
SetWallet(v) ==
    /\ focus \in Components
    /\ PanelShown(rendered)
    /\ Handle([View EXCEPT !.walletByToken =
                             MapPut(@, ActiveToken(rendered).address, Trim(v))],
              [rendered EXCEPT !.walletByToken =
                                 MapPut(@, ActiveToken(rendered).address, Trim(v))],
              TRUE)

\* onClick of the refresh button of the panel, which is disabled while
\* isRefreshing is shown.
RefreshClick ==
    /\ focus \in Components
    /\ PanelShown(rendered)
    /\ ~rendered.isRefreshing
    /\ Handle(refresh(rendered, View), Cells(refresh(rendered, Screen)), TRUE)

RpcBalance(i, resp) ==
    /\ focus \in Components
    /\ i \in 1..Len(refreshes)
    /\ Resume(refreshResolved(View, i, resp))

\* The task that renders every update made since the last render.  The effects
\* of the commit before run first, so the render waits for them.
Render ==
    /\ focus \in Components
    /\ IsNull(passive)
    /\ rendered # Cells(View)
    /\ rendered' = Cells(View)
    /\ passive' = Some([mount |-> FALSE, before |-> rendered])
    /\ UNCHANGED <<focus, session, unifiedSyncLane, tokenInput, tokens, activeAddr, walletByToken, balances,
                   error, loadingToken, isRefreshing, updatedAt, storage, registration,
                   refreshes, overtaken, pageVars, lastCall>>

\* The task that runs the effects of the last commit.
RunEffects ==
    /\ focus \in Components
    /\ ~IsNull(passive)
    /\ \E L \in { Effects(Val(passive).mount, Val(passive).before, rendered, View) } :
        /\ Len(L.refreshes) <= MaxInFlight
        /\ Commit(L)
    /\ passive' = Null
    /\ UNCHANGED <<focus, session, unifiedSyncLane, rendered, pageVars, lastCall>>

\* The first render of a newly opened page.
Mounted == Some([mount |-> TRUE, before |-> Cells(InitialView)])

\* The page is closed, whatever is pending with it, and opened again: the
\* component is rendered anew over the same localStorage.
Reload ==
    /\ focus \in Components
    /\ Commit([InitialView EXCEPT !.storage = storage])
    /\ rendered' = Cells(InitialView)
    /\ passive' = Mounted
    /\ UNCHANGED <<focus, session, unifiedSyncLane, pageVars, lastCall>>

(***************************************************************************)
(* Home: the batch balance fetch of the page.                              *)
(***************************************************************************)
ADDRESSES ==
    << <<"0","x","f","3","9","F","d","6","e","5","1","a","a","d","8","8","F","6","F","4","c",
         "e","6","a","B","8","8","2","7","2","7","9","c","f","f","F","b","9","2","2","6","6">>,
       <<"0","x","7","0","9","9","7","9","7","0","C","5","1","8","1","2","d","c","3","A","0",
         "1","0","C","7","d","0","1","b","5","0","e","0","d","1","7","d","c","7","9","C","8">>,
       <<"0","x","3","C","4","4","C","d","D","d","B","6","a","9","0","0","f","a","2","b","5",
         "8","5","d","d","2","9","9","e","0","3","d","1","2","F","A","4","2","9","3","B","C">>,
       <<"0","x","9","0","F","7","9","b","f","6","E","B","2","c","4","f","8","7","0","3","6",
         "5","E","7","8","5","9","8","2","E","1","f","1","0","1","E","9","3","b","9","0","6">>,
       <<"0","x","1","5","d","3","4","A","A","f","5","4","2","6","7","D","B","7","D","7","c",
         "3","6","7","8","3","9","A","A","f","7","1","A","0","0","a","2","C","6","A","6","5">>,
       <<"0","x","9","9","6","5","5","0","7","D","1","a","5","5","b","c","C","2","6","9","5",
         "C","5","8","b","a","1","6","F","B","3","7","d","8","1","9","B","0","A","4","d","c">>,
       <<"0","x","9","7","6","E","A","7","4","0","2","6","E","7","2","6","5","5","4","d","B",
         "6","5","7","f","A","5","4","7","6","3","a","b","d","0","C","3","a","0","a","a","9">>,
       <<"0","x","1","4","d","C","7","9","9","6","4","d","a","2","C","0","8","b","2","3","6",
         "9","8","B","3","D","3","c","c","7","C","a","3","2","1","9","3","d","9","9","5","5">>,
       <<"0","x","2","3","6","1","8","e","8","1","E","3","f","5","c","d","F","7","f","5","4",
         "C","3","d","6","5","f","7","F","B","c","0","a","B","f","5","B","2","1","E","8","f">>,
       <<"0","x","a","0","E","e","7","A","1","4","2","d","2","6","7","C","1","f","3","6","7",
         "1","4","E","4","a","8","F","7","5","6","1","2","F","2","0","a","7","9","7","2","0">> >>

\* One element of the response array of a batch.
BatchEntry(id, err, result) == [id |-> id, error |-> err, result |-> result]

\* What the transport gives back to a batch: the fetch rejects, or a status
\* comes with a body that is an array of entries ("array") or some other JSON
\* value ("object"), over which the for-of loop throws.
BatchReply(kind, status, data) == [kind |-> kind, status |-> status, data |-> data]

\* the response taken by its place in the array instead of its id
byIdGetByPosition(data, id) == IF id <= Len(data) THEN id ELSE 0

\* byId.get(id) after `for (const r of data) byId.set(r.id, r)`: the index in
\* data of the last entry with that id, or 0
byIdGet(data, id) ==
    IF \E j \in 1..Len(data) : data[j].id = id
    THEN CHOOSE j \in 1..Len(data) :
            /\ data[j].id = id
            /\ \A k \in (j + 1)..Len(data) : data[k].id # id
    ELSE 0

\* The value of one slot: the body of reqs.map.
slotValue(data, id) ==
    LET j == byIdGet(data, id)
    IN  IF j = 0 THEN Null
        ELSE IF ~IsNull(data[j].error) THEN Null
        ELSE IF IsNull(data[j].result) \/ Val(data[j].result) = <<>> THEN Null
        ELSE LET v == StringToBigInt(Val(data[j].result))
             IN  IF v.ok THEN Some(BigIntValue(v)) ELSE Null

\* fetchBalances giving up on the whole batch when one slot has no value
fetchBalancesAllOrNothing(addresses, reply) ==
    IF /\ reply.kind = "array"
       /\ HttpOk(reply.status)
       /\ \A i \in 1..Len(addresses) : ~IsNull(slotValue(reply.data, i))
    THEN [i \in 1..Len(addresses) |-> slotValue(reply.data, i)]
    ELSE [i \in 1..Len(addresses) |-> Null]

\* The array fetchBalances resolves to; request i carries id i.
fetchBalances(addresses, reply) ==
    IF reply.kind = "array" /\ HttpOk(reply.status)
    THEN [i \in 1..Len(addresses) |-> slotValue(reply.data, i)]
    ELSE [i \in 1..Len(addresses) |-> Null]

\* What the node answers to one request of a batch.
BatchAnswers ==
    { [error |-> Null, result |-> Some(<<"0", "x", "0">>)],
      [error |-> Null, result |-> Some(<<"0", "x", "2", "a">>)],
      [error |-> Some("execution reverted"), result |-> Null],
      [error |-> Null, result |-> Null],
      [error |-> Null, result |-> Some(HexPrefix)] }

SeqsUpTo(S, n) == UNION { [1..k -> S] : k \in 0..n }

\* The replies to a batch of n requests: any failure of the delivery, or an
\* array that lists ids of 1..n+1 in any order, with repeats and omissions,
\* each id with the node's answer to it.
BatchReplies(n) ==
    { BatchReply("reject", 0, <<>>), BatchReply("array", 500, <<>>),
      BatchReply("object", 200, <<>>) }
    \cup
    { BatchReply("array", 200,
                 [j \in 1..Len(order) |->
                    BatchEntry(order[j], answer[order[j]].error, answer[order[j]].result)]) :
        order \in SeqsUpTo(1..(n + 1), MaxReply),
        answer \in [1..(n + 1) -> BatchAnswers] }

NoReply == BatchReply("none", 0, <<>>)

\* The replies explored while something else of the page is under way: the
\* delivery fails, the body is no array, or every request is answered in order.
ConcurrentReplies(n) ==
    { BatchReply("reject", 0, <<>>), BatchReply("object", 200, <<>>),
      BatchReply("array", 200,
                 [j \in 1..n |-> BatchEntry(j, Null, Some(<<"0", "x", "2", "a">>))]) }

\* The replies explored to call i: all of them when the call is the only thing
\* of the page under way.
RepliesTo(i) ==
    IF Len(fbCalls) = 1 /\ homePending = 0 /\ resetTimers = 0
    THEN BatchReplies(Len(fbCalls[i]))
    ELSE ConcurrentReplies(Len(fbCalls[i]))

\* No call of fetchBalances returned in this step.
NoneReturned ==
    /\ fbAddresses' = <<>>
    /\ fbReply' = NoReply
    /\ fbResult' = <<>>

\* Home is rendered, for the page opened or for a router.refresh():
\* fetchBalances is called and sends its batch.
FetchBalances(n) ==
    /\ focus = "Home"
    /\ homePending > 0
    /\ n \in 0..MaxBatch
    /\ homePending' = homePending - 1
    /\ fbCalls' = Append(fbCalls, SubSeq(ADDRESSES, 1, n))
    /\ NoneReturned
    /\ UNCHANGED <<focus, session, unifiedSyncLane, compVars, loading, resetTimers, lastCall>>

\* The batch of call i is answered and fetchBalances returns.
BatchDelivered(i, reply) ==
    /\ focus = "Home"
    /\ i \in 1..Len(fbCalls)
    /\ fbCalls' = RemoveAt(fbCalls, i)
    /\ fbAddresses' = fbCalls[i]
    /\ fbReply' = reply
    /\ fbResult' = fetchBalances(fbCalls[i], reply)
    /\ UNCHANGED <<focus, session, unifiedSyncLane, compVars, homePending, loading, resetTimers, lastCall>>

\* The click on RefreshPageButton: setLoading(true), router.refresh(), which
\* asks for a new render of Home whatever is under way, and setTimeout.
RefreshPage ==
    /\ focus = "Home"
    /\ homePending + Len(fbCalls) < MaxRenders
    /\ resetTimers < MaxRenders
    /\ loading' = TRUE
    /\ homePending' = homePending + 1
    /\ resetTimers' = resetTimers + 1
    /\ NoneReturned
    /\ UNCHANGED <<focus, session, unifiedSyncLane, compVars, fbCalls, lastCall>>

\* A callback of setTimeout runs: setLoading(false).
LoadingReset ==
    /\ focus = "Home"
    /\ resetTimers > 0
    /\ loading' = FALSE
    /\ resetTimers' = resetTimers - 1
    /\ NoneReturned
    /\ UNCHANGED <<focus, session, unifiedSyncLane, compVars, homePending, fbCalls, lastCall>>

(***************************************************************************)
(* The specifications.                                                     *)
(***************************************************************************)
NoCall == [fn |-> "none", arg |-> <<>>, out |-> Null]

InitCall == lastCall = NoCall

InitPageVars ==
    /\ homePending = 1
    /\ fbCalls = <<>>
    /\ loading = FALSE
    /\ resetTimers = 0
    /\ fbAddresses = <<>>
    /\ fbReply = NoReply
    /\ fbResult = <<>>

\* The registry a "balances" session finds stored: AddrA then AddrB, each with
\* the metadata a registration gives it when every call returns a payload.
\* The strings are of a few bytes, which every spread call takes.
StoredTokens ==
    LET fits == TRUE
        decA == decimalsOf(RpcResult(Word(<<"1", "2">>))).decimals
        decB == decimalsOf(RpcResult(<<"0", "x", "7", "f", "f", "f", "f", "f", "f", "f">>)).decimals
        strA(payloads) == RpcResult(CHOOSE h \in payloads : TRUE)
        strB == RpcResult(DynString(<<"3">>, <<"4","1">>))
    IN  IF focus = "TokenBalances"
        THEN << [address |-> AddrA, symbol |-> symbolOf(strA(SymbolPayloads(AddrA)), fits),
                 decimals |-> FiniteOr18(decA)],
                [address |-> AddrB, symbol |-> symbolOf(strB, fits), decimals |-> FiniteOr18(decB)] >>
        ELSE << [address |-> AddrA, name |-> nftFieldOf(strA(NamePayloads(AddrA)), fits),
                 symbol |-> nftFieldOf(strA(SymbolPayloads(AddrA)), fits)],
                [address |-> AddrB, name |-> nftFieldOf(strB, fits), symbol |-> nftFieldOf(strB, fits)] >>

InitCompVars ==
    /\ \E S \in { [InitialView EXCEPT
                     !.storage = IF session = "balances" THEN Some(StoredTokens) ELSE Null] } :
        /\ tokenInput = S.tokenInput
        /\ tokens = S.tokens
        /\ activeAddr = S.activeAddr
        /\ walletByToken = S.walletByToken
        /\ balances = S.balances
        /\ error = S.error
        /\ loadingToken = S.loadingToken
        /\ isRefreshing = S.isRefreshing
        /\ updatedAt = S.updatedAt
        /\ storage = S.storage
        /\ registration = S.registration
        /\ refreshes = S.refreshes
        /\ overtaken = S.overtaken
    /\ rendered = Cells(InitialView)
    /\ passive = Mounted

\* The React build of the run: either one for a component.  Home and the
\* helpers are modelled without renders, the build plays no part in them.
InitBuild == unifiedSyncLane \in (IF focus \in Components THEN BOOLEAN ELSE {FALSE})

Init ==
    /\ focus \in Components \cup {"Home"}
    /\ session \in {"registry", "balances"}
    /\ focus = "Home" => session = "registry"
    /\ InitBuild
    /\ InitCompVars
    /\ InitPageVars
    /\ InitCall

NextPage ==
    \/ \E n \in 0..MaxBatch : FetchBalances(n)
    \/ \E i \in 1..Len(fbCalls) : \E reply \in RepliesTo(i) : BatchDelivered(i, reply)
    \/ RefreshPage
    \/ LoadingReset

\* The registration awaiting a response (a placeholder when there is none).
Pending ==
    IF IsNull(registration)
    THEN [address |-> AddrA, awaiting |-> "none", decimals |-> NumberZero, name |-> QuestionMark]
    ELSE Val(registration)

NextComponent ==
    \/ \E v \in TypedTokenInputs : SetTokenInput(v)
    \/ AddToken
    \/ /\ Pending.awaiting = "decimals"
       /\ \E resp \in Responses(DecimalsPayloads(Pending.address)) : RpcDecimals(resp)
    \/ /\ Pending.awaiting = "name"
       /\ \E resp \in Responses(NamePayloads(Pending.address)) : RpcName(resp)
    \/ /\ Pending.awaiting = "symbol"
       /\ \E resp \in Responses(SymbolPayloads(Pending.address)) : RpcSymbol(resp)
    \/ \E i \in 1..Len(rendered.tokens) : SelectTab(i)
    \/ RemoveToken
    \/ \E v \in TypedWallets : SetWallet(v)
    \/ RefreshClick
    \/ \E i \in 1..Len(refreshes) :
        \E resp \in Responses(BalancePayloads(refreshes[i].meta.address)) : RpcBalance(i, resp)
    \/ Render
    \/ RunEffects
    \/ Reload

Next == NextComponent \/ NextPage

Spec == Init /\ [][Next]_vars

InitPage ==
    focus = "Home" /\ session = "registry" /\ InitBuild /\ InitCompVars /\ InitPageVars /\ InitCall

SpecPage == InitPage /\ [][NextPage]_vars

\* A "registry" session of a component on its own.
InitRegistry ==
    focus \in Components /\ session = "registry" /\ InitBuild /\ InitCompVars /\ InitPageVars /\ InitCall

NextRegistry ==
    \/ \E v \in TypedTokenInputs : SetTokenInput(v)
    \/ AddToken
    \/ /\ Pending.awaiting = "decimals"
       /\ \E resp \in Responses(DecimalsPayloads(Pending.address)) : RpcDecimals(resp)
    \/ /\ Pending.awaiting = "name"
       /\ \E resp \in Responses(NamePayloads(Pending.address)) : RpcName(resp)
    \/ /\ Pending.awaiting = "symbol"
       /\ \E resp \in Responses(SymbolPayloads(Pending.address)) : RpcSymbol(resp)
    \/ \E i \in 1..Len(rendered.tokens) : SelectTab(i)
    \/ RemoveToken
    \/ RefreshClick
    \/ Render
    \/ RunEffects
    \/ Reload

SpecRegistry == InitRegistry /\ [][NextRegistry]_vars

\* A "balances" session of a component on its own.
InitBalances ==
    focus \in Components /\ session = "balances" /\ InitBuild /\ InitCompVars /\ InitPageVars /\ InitCall

NextBalances ==
    \/ \E i \in 1..Len(rendered.tokens) : SelectTab(i)
    \/ RemoveToken
    \/ \E v \in TypedWallets : SetWallet(v)
    \/ RefreshClick
    \/ \E i \in 1..Len(refreshes) :
        \E resp \in Responses(BalancePayloads(refreshes[i].meta.address)) : RpcBalance(i, resp)
    \/ Render
    \/ RunEffects
    \/ Reload

SpecBalances == InitBalances /\ [][NextBalances]_vars

(***************************************************************************)
(* The helpers applied on their own, to arguments drawn from fixed sets.   *)
(***************************************************************************)
Amounts == {0, 1, 5, 10, 50, 100, 1050, 1500, 100000, 1000000, 123456789, 2147483647}

DecimalsArgs == {0 - 1, 0, 1, 2, 3, 6, 9, 18, 255, 323228484, 400000000, 2147483647}

\* Payloads handed to the string decoder: no text, no prefix, no data, bytes32
\* words, whole dynamic strings, a dynamic string cut short, odd-length hex,
\* a length header of 2^256 - 1, and headers that are no numbers.
AbiPayloads ==
    { <<>>,
      <<"U", "S", "D", "C">>,
      HexPrefix,
      <<"0", "x", "1", "2", "3">>,
      HexPrefix \o <<"5","5","5","3","4","4","4","3">> \o Rep("0", WordHexLen - 8),
      HexPrefix \o Rep("0", WordHexLen),
      DynString(<<"3">>, <<"4","1","4","2","4","3">> \o Rep("0", WordHexLen - 6)),
      DynString(<<"2">>, <<"4","1","4","2">>),
      DynString(<<"0">>, <<>>),
      DynString(<<"3">>, <<"4","1">>),
      DynString(<<"2">>, <<"4","1","4">>),
      DynString(<<"1">>, <<"z","z">>),
      DynString(Rep("f", WordHexLen), <<"4","1","4","2">>),
      HexPrefix \o pad32(<<"2", "0">>) \o Rep("0", WordHexLen - 2) \o <<"z", "z">>
          \o <<"4","1","4","2">>,
      HexPrefix \o Rep("0", WordHexLen - 2) \o <<"z", "z">> \o pad32(<<"1">>)
          \o <<"4","1">> }

FormatUnitsCall(wei, decimals) ==
    /\ lastCall' = [fn |-> "formatUnits", arg |-> <<wei, decimals>>,
                    out |-> formatUnits(wei, decimals)]
    /\ UNCHANGED <<focus, session, unifiedSyncLane, compVars, pageVars>>

DecodeCall(hex) ==
    /\ \E fits \in FromCharCodeOutcomes(hex) :
         lastCall' = [fn |-> "tryDecodeStringFromAbi", arg |-> hex,
                      out |-> tryDecodeStringFromAbi(hex, fits)]
    /\ UNCHANGED <<focus, session, unifiedSyncLane, compVars, pageVars>>

NftDecodeCall(hex) ==
    /\ \E fits \in FromCharCodeOutcomes(hex) :
         lastCall' = [fn |-> "nftTryDecodeStringFromAbi", arg |-> hex,
                      out |-> nftTryDecodeStringFromAbi(hex, fits)]
    /\ UNCHANGED <<focus, session, unifiedSyncLane, compVars, pageVars>>

InitHelpers ==
    focus = "Home" /\ session = "registry" /\ InitBuild /\ InitCompVars /\ InitPageVars /\ InitCall

NextHelpers ==
    \/ \E wei \in Amounts : \E decimals \in DecimalsArgs : FormatUnitsCall(wei, decimals)
    \/ \E hex \in AbiPayloads : DecodeCall(hex)
    \/ \E hex \in AbiPayloads : NftDecodeCall(hex)

SpecHelpers == InitHelpers /\ [][NextHelpers]_vars

(***************************************************************************)
(* Vocabulary of the properties, stated without the code's own helpers.    *)
(***************************************************************************)
HexChars == {"0","1","2","3","4","5","6","7","8","9",
             "a","b","c","d","e","f","A","B","C","D","E","F"}

\* exactly 0x followed by 40 hex digits
ExactAddress(text) ==
    /\ Len(text) = 42
    /\ text[1] = "0"
    /\ text[2] = "x"
    /\ \A i \in 3..42 : text[i] \in HexChars

\* 0x followed by at least one hex digit
HexText(text) ==
    /\ Len(text) > 2
    /\ text[1] = "0"
    /\ text[2] = "x"
    /\ \A i \in 3..Len(text) : text[i] \in HexChars

\* 0x followed by zeros only
ZeroHex(text) == HexText(text) /\ \A i \in 3..Len(text) : text[i] = "0"

\* The call fails at the transport, by a node error or by an empty result.
CallFails(resp) ==
    \/ resp.kind = "reject"
    \/ resp.status < 200
    \/ resp.status > 299
    \/ resp.error # Null
    \/ resp.result = Null

\* An ABI return value that holds a string: one 32-byte word, or an offset
\* word, a length word and at least as many whole data bytes as the length says.
WellFormedAbiString(text) ==
    /\ HexText(text)
    /\ \/ Len(text) - 2 = 64
       \/ /\ Len(text) - 2 >= 128
          /\ (Len(text) - 2) % 2 = 0
          /\ Len(text) - 2 - 128 >= 2 * DigitsValue(SubSeq(text, 67, 130), 16)

\* A call for a uint fails: the call itself, or a payload that is no hex number.
UintCallFails(resp) == CallFails(resp) \/ ~HexText(Val(resp.result))

\* A call for a string fails: the call itself, or a payload that is no string.
StringCallFails(resp) == CallFails(resp) \/ ~WellFormedAbiString(Val(resp.result))

\* The token and wallet refresh call i targets are the active ones of R.
TargetOf(R, i) ==
    /\ ~IsNull(R.activeAddr)
    /\ SameAddress(Val(R.activeAddr), refreshes[i].meta.address)
    /\ activeWallet(R) = refreshes[i].wallet

\* The token and wallet a refresh call targets are no longer the active ones,
\* neither on the screen nor with the updates that wait for a render.
TargetChanged(i) == ~TargetOf(rendered, i) /\ ~TargetOf(View, i)

\* The token and wallet a refresh call targets are still the active ones.
TargetCurrent(i) == TargetOf(rendered, i) /\ TargetOf(View, i)

BalanceResponses(i) == Responses(BalancePayloads(refreshes[i].meta.address))

BalanceKey(i) == ToLowerCase(refreshes[i].meta.address)

(***************************************************************************)
(* C1.  If the active token or its wallet text changed while a refresh was *)
(* in flight, the resolution of that refresh's RPC call, with a value or   *)
(* with a failure, leaves the balance store as it was.                     *)
(* The code does not keep this: the cancelled flag is never set.           *)
(***************************************************************************)
C1_StaleRefreshDiscarded ==
    [][\A i \in 1..Len(refreshes) : \A resp \in BalanceResponses(i) :
            (RpcBalance(i, resp) /\ TargetChanged(i)) => balances' = balances]_vars

(***************************************************************************)
(* C2.  When the reply to a batch lists exactly one response per request,  *)
(* in any order, fetchBalances returns one slot per request and slot i     *)
(* holds the value of the response whose id is the id of request i.        *)
(***************************************************************************)
Delivered == fbReply.kind = "array" /\ fbReply.status = 200

\* The value a response entry carries: Null for an error, no result or no number.
EntryValue(e) ==
    IF e.error # Null \/ e.result = Null THEN Null
    ELSE IF ~HexText(Val(e.result)) THEN Null
    ELSE Some(DigitsValue(SubSeq(Val(e.result), 3, Len(Val(e.result))), 16))

OneResponsePerRequest ==
    /\ Len(fbReply.data) = Len(fbAddresses)
    /\ \A i \in 1..Len(fbAddresses) :
         Cardinality({ j \in 1..Len(fbReply.data) : fbReply.data[j].id = i }) = 1

C2_BatchCorrelation ==
    (Delivered /\ OneResponsePerRequest) =>
        /\ Len(fbResult) = Len(fbAddresses)
        /\ \A i \in 1..Len(fbAddresses) : \A j \in 1..Len(fbReply.data) :
             fbReply.data[j].id = i => fbResult[i] = EntryValue(fbReply.data[j])

\* Two requests answered in the opposite order, with different values.
C2_Witness ==
    /\ Delivered
    /\ OneResponsePerRequest
    /\ Len(fbAddresses) = 2
    /\ fbReply.data[1].id = 2
    /\ fbReply.data[2].id = 1
    /\ fbResult[1] # Null
    /\ fbResult[2] # Null
    /\ fbResult[1] # fbResult[2]

(***************************************************************************)
(* C3.  In a delivered batch a request with no matching response, or whose *)
(* response carries an error or no result, gets null in its own slot only: *)
(* every slot whose response carries a valid result holds that value.      *)
(***************************************************************************)
ResponsesTo(i) == { j \in 1..Len(fbReply.data) : fbReply.data[j].id = i }

C3_PartialFailure ==
    Delivered =>
        /\ Len(fbResult) = Len(fbAddresses)
        /\ \A i \in 1..Len(fbAddresses) :
             /\ ResponsesTo(i) = {} => fbResult[i] = Null
             /\ \A j \in ResponsesTo(i) :
                  /\ fbResult[i] = EntryValue(fbReply.data[j])
                  /\ (fbReply.data[j].error # Null \/ fbReply.data[j].result = Null)
                        => fbResult[i] = Null
                  /\ (fbReply.data[j].error = Null /\ fbReply.data[j].result # Null
                        /\ HexText(Val(fbReply.data[j].result)))
                        => fbResult[i] # Null

\* One request has no response, one an error, and the other slot holds a value.
C3_Witness ==
    /\ Delivered
    /\ Len(fbAddresses) = 2
    /\ ResponsesTo(1) = {}
    /\ fbResult[1] = Null
    /\ fbResult[2] # Null
    /\ \E j \in 1..Len(fbReply.data) : fbReply.data[j].error # Null

(***************************************************************************)
(* C4.  The registry never holds two entries whose addresses are equal     *)
(* after lowercasing.                                                      *)
(* Whether the code keeps this is the React build's choice.  addToken      *)
(* looks for the address in the registry of the last render.  With the     *)
(* unified sync lane every render of a user event holds the registry as    *)
(* loaded, and the property holds (C4_UnifiedSyncLane).  With the lane of  *)
(* a user event kept apart, a registry loaded from storage is in no render *)
(* until the task after the load, and a stored address typed and added     *)
(* before that task is registered twice.                                   *)
(***************************************************************************)
C4_NoDuplicateAddress ==
    \A i \in 1..Len(tokens) : \A j \in 1..Len(tokens) :
        i # j => [k \in 1..Len(tokens[i].address) |-> ToLowerChar(tokens[i].address[k])]
                 # [k \in 1..Len(tokens[j].address) |-> ToLowerChar(tokens[j].address[k])]

\* C4 in the runs of a build with the unified sync lane.
C4_UnifiedSyncLane == unifiedSyncLane => C4_NoDuplicateAddress

\* C4, unified sync lane: two tokens are registered and a registration of one
\* of them, typed in another case, has just been refused.
C4_UnifiedWitness ==
    /\ unifiedSyncLane
    /\ Len(tokens) = 2
    /\ error = Some(ErrAlreadyRegistered)
    /\ \E i \in 1..2 : tokens[i].address # tokenInput /\ SameAddress(tokens[i].address, tokenInput)

(***************************************************************************)
(* C5.  addToken with an input that is not exactly 0x and 40 hex digits,   *)
(* or that equals a registered address after lowercasing, sends no         *)
(* request, leaves the registry and the active address as they are and     *)
(* sets an error; and no step sends a balance request for a wallet text    *)
(* that is not a valid address.  What the effects do in the task of the    *)
(* click, as they would for a click that updates nothing, is not counted   *)
(* as done by addToken.                                                    *)
(* Whether the code keeps this is the React build's choice, as for C4:     *)
(* with the unified sync lane it holds (C5_UnifiedSyncLane); with the lane *)
(* of a user event kept apart, addToken looks for the address in a         *)
(* registry that may lack entries already loaded, and sends a request for  *)
(* one of them.  With the registry read as the one on the screen, the      *)
(* property holds whatever the build (C5_EitherBuild).                     *)
(***************************************************************************)
RefusedIn(registry) ==
    \/ ~ExactAddress(tokenInput)
    \/ \E i \in 1..Len(registry) :
            ToLowerCase(registry[i].address) = ToLowerCase(tokenInput)

ValidatedStep(registry) ==
    /\ (AddToken /\ RefusedIn(registry)) =>
            /\ registration' = Null
            /\ refreshes' = Task(View, rendered).refreshes
            /\ tokens' = Task(View, rendered).tokens
            /\ activeAddr' = Task(View, rendered).activeAddr
            /\ error' # Null
    /\ Len(refreshes') > Len(refreshes) =>
            ExactAddress(refreshes'[Len(refreshes')].wallet)
    /\ (RefreshClick /\ ~ExactAddress(activeWallet(rendered))) =>
            refreshes' = refreshes

C5_ValidationBeforeNetwork == [][ValidatedStep(tokens)]_vars

\* C5 in the runs of a build with the unified sync lane.
C5_UnifiedSyncLane == [][unifiedSyncLane => ValidatedStep(tokens)]_vars

\* C5 with the registry on the screen as the registry of the statement.
C5_EitherBuild == [][ValidatedStep(rendered.tokens)]_vars

(***************************************************************************)
(* C6.  TokenBalances asks for decimals() before symbol().  When the       *)
(* decimals call fails, no symbol request is sent, the registration stops  *)
(* with an error and the registry is untouched.  When decimals succeeded   *)
(* and the symbol call fails or returns a payload that is no ABI string,   *)
(* the token is registered with the symbol "?".                            *)
(* The code does not keep this: a cut-off string payload is decoded into   *)
(* a symbol.                                                               *)
(***************************************************************************)
RegistrySize == Len(tokens)

C6_TokenMetadataOrder ==
    [][focus = "TokenBalances" =>
        /\ (AddToken /\ registration' # Null) => Val(registration').awaiting = "decimals"
        /\ \A resp \in Responses(DecimalsPayloads(Pending.address)) :
             (Pending.awaiting = "decimals" /\ RpcDecimals(resp) /\ UintCallFails(resp)) =>
                /\ registration' = Null
                /\ tokens' = tokens
                /\ error' # Null
        /\ \A resp \in Responses(SymbolPayloads(Pending.address)) :
             (Pending.awaiting = "symbol" /\ RpcSymbol(resp) /\ StringCallFails(resp)) =>
                /\ Len(tokens') = RegistrySize + 1
                /\ tokens'[Len(tokens')].address = Pending.address
                /\ tokens'[Len(tokens')].symbol = QuestionMark]_vars

(***************************************************************************)
(* C7.  NFTBalances fetches name() and symbol() each on its own: whatever  *)
(* the name call did, the symbol call is made, and the registration adds   *)
(* exactly one entry, in which a field whose call failed or returned no    *)
(* ABI string reads "?" and the other field keeps its decoded value.       *)
(* The code does not keep this: a cut-off string payload is decoded into   *)
(* a name or a symbol.                                                     *)
(***************************************************************************)
C7_NftFieldsIndependent ==
    [][focus = "NFTBalances" =>
        /\ \A resp \in Responses(NamePayloads(Pending.address)) :
             (Pending.awaiting = "name" /\ RpcName(resp)) =>
                /\ registration' # Null
                /\ Val(registration').awaiting = "symbol"
                /\ tokens' = tokens
                /\ StringCallFails(resp) => Val(registration').name = QuestionMark
        /\ \A resp \in Responses(SymbolPayloads(Pending.address)) :
             (Pending.awaiting = "symbol" /\ RpcSymbol(resp)) =>
                /\ Len(tokens') = RegistrySize + 1
                /\ SubSeq(tokens', 1, RegistrySize) = tokens
                /\ tokens'[Len(tokens')].address = Pending.address
                /\ tokens'[Len(tokens')].name = Pending.name
                /\ StringCallFails(resp) => tokens'[Len(tokens')].symbol = QuestionMark]_vars

(***************************************************************************)
(* C8.  A zero balance is a value, not a missing one: a slot of            *)
(* fetchBalances whose response carries a zero result holds 0, and a       *)
(* refresh that is still current and whose call returns zero stores the    *)
(* text "0" for its token.                                                 *)
(* The code does not keep this for a token whose decimals formatUnits      *)
(* cannot raise ten to.                                                    *)
(***************************************************************************)
ZeroBalance(resp) == ~CallFails(resp) /\ ZeroHex(Val(resp.result))

C8_ZeroIsAvailable ==
    /\ [](Delivered =>
            \A i \in 1..Len(fbAddresses) : \A j \in ResponsesTo(i) :
                (fbReply.data[j].error = Null /\ fbReply.data[j].result # Null
                    /\ ZeroHex(Val(fbReply.data[j].result)))
                    => fbResult[i] = Some(0))
    /\ [][\A i \in 1..Len(refreshes) : \A resp \in BalanceResponses(i) :
            (RpcBalance(i, resp) /\ ZeroBalance(resp) /\ TargetCurrent(i)) =>
                /\ BalanceKey(i) \in DOMAIN balances'
                /\ balances'[BalanceKey(i)] = Some(<<"0">>)]_vars

(***************************************************************************)
(* C9.  Once a refresh has written a value for a token, a refresh of the   *)
(* same token that was started before it changes nothing in the balance    *)
(* store when it resolves.                                                 *)
(* The code does not keep this: the late resolution is written.            *)
(***************************************************************************)
C9_LatestRefreshWins ==
    [][\A i \in 1..Len(refreshes) : \A resp \in BalanceResponses(i) :
            (/\ RpcBalance(i, resp)
             /\ overtaken[i]
             /\ BalanceKey(i) \in DOMAIN balances
             /\ balances[BalanceKey(i)] # Null)
                => balances' = balances]_vars

(***************************************************************************)
(* C10. Every entry of the TokenBalances registry has decimals within      *)
(* 0..255, whatever the node returned to decimals().                       *)
(* The code does not keep this: the returned number is stored as it is.    *)
(***************************************************************************)
C10_DecimalsIsUint8 ==
    focus = "TokenBalances" => \A i \in 1..Len(tokens) : tokens[i].decimals \in 0..255

(***************************************************************************)
(* C11. For an amount >= 0 and decimals >= 1, formatUnits returns the      *)
(* decimal string of amount div 10^decimals, followed, only when the       *)
(* remainder is not 0, by "." and the remainder padded to decimals digits  *)
(* with its trailing zeros removed; for decimals <= 0 it returns the       *)
(* decimal string of amount.                                               *)
(* As stated, for every decimals >= 1, the code does not keep it: for a    *)
(* decimals beyond what a bigint power can hold formatUnits raises.        *)
(* C11_FormatUnitsUint8 states it for decimals within 1..255.              *)
(***************************************************************************)
Numerals == <<"0", "1", "2", "3", "4", "5", "6", "7", "8", "9">>

RECURSIVE DecimalOf(_)
DecimalOf(n) ==
    IF n < 10 THEN <<Numerals[n + 1]>>
    ELSE DecimalOf(n \div 10) \o <<Numerals[(n % 10) + 1]>>

\* The digits of amount with the point set decimals places from the right
\* and the zeros at the end of the fraction dropped.
FixedPoint(amount, decimals) ==
    LET digits == DecimalOf(amount)
        lead == IF Len(digits) > decimals THEN 0 ELSE decimals + 1 - Len(digits)
        padded == [i \in 1..lead |-> "0"] \o digits
        cut == Len(padded) - decimals
        whole == SubSeq(padded, 1, cut)
        fraction == SubSeq(padded, cut + 1, Len(padded))
        used == { k \in 1..decimals : fraction[k] # "0" }
    IN  IF used = {} THEN whole
        ELSE whole \o <<".">> \o SubSeq(fraction, 1, CHOOSE k \in used : \A j \in used : j <= k)

FormatUnitsCorrect(amount, decimals) ==
    /\ lastCall.out.ok
    /\ lastCall.out.value = (IF decimals >= 1 THEN FixedPoint(amount, decimals)
                             ELSE DecimalOf(amount))
    /\ lastCall.out.value[Len(lastCall.out.value)] # "."
    /\ (\E k \in 1..Len(lastCall.out.value) : lastCall.out.value[k] = ".")
          => lastCall.out.value[Len(lastCall.out.value)] # "0"

C11_FormatUnits ==
    lastCall.fn = "formatUnits" => FormatUnitsCorrect(lastCall.arg[1], lastCall.arg[2])

C11_FormatUnitsUint8 ==
    (lastCall.fn = "formatUnits" /\ lastCall.arg[2] <= 255)
        => FormatUnitsCorrect(lastCall.arg[1], lastCall.arg[2])

\* 1050 with 3 decimals: the fraction 050 keeps its leading zero and loses its
\* trailing one.
C11_Witness ==
    /\ lastCall.fn = "formatUnits"
    /\ lastCall.arg = <<1050, 3>>
    /\ lastCall.out.ok
    /\ lastCall.out.value = <<"1", ".", "0", "5">>

(***************************************************************************)
(* C12. tryDecodeStringFromAbi returns for every input, and for a          *)
(* malformed payload (odd-length hex, a dynamic payload with fewer data    *)
(* bytes than its length header declares, a length header that is no       *)
(* number) it returns null, not a string.  Both components' decoders.      *)
(* The code does not keep this: a payload cut short, or of odd length,     *)
(* is decoded into the characters that are there.                          *)
(***************************************************************************)
Prefixed(payload) == Len(payload) >= 2 /\ payload[1] = "0" /\ payload[2] = "x"

HasHeaders(payload) == Prefixed(payload) /\ Len(payload) - 2 >= 128

OddLength(payload) == Prefixed(payload) /\ (Len(payload) - 2) % 2 = 1

NumericLengthHeader(payload) ==
    HasHeaders(payload) /\ \A k \in 67..130 : payload[k] \in HexChars

NonNumericLengthHeader(payload) ==
    HasHeaders(payload) /\ \E k \in 67..130 : payload[k] \notin HexChars

CutShort(payload) ==
    /\ NumericLengthHeader(payload)
    /\ Len(payload) - 130 < 2 * DigitsValue(SubSeq(payload, 67, 130), 16)

MalformedPayload(payload) ==
    OddLength(payload) \/ CutShort(payload) \/ NonNumericLengthHeader(payload)

C12_DecoderRejectsMalformed ==
    lastCall.fn \in {"tryDecodeStringFromAbi", "nftTryDecodeStringFromAbi"} =>
        /\ lastCall.out = Null \/ \E text \in lastCall.out : text \in Seq(0..65535)
        /\ MalformedPayload(lastCall.arg) => lastCall.out = Null

(***************************************************************************)
(* C13. Once the pending renders and effects have run, activeAddr is null  *)
(* exactly when the registry is empty, and otherwise it is the address of  *)
(* an entry of the registry.                                               *)
(***************************************************************************)
C13_ActiveTabValid ==
    (passive = Null /\ rendered = Cells(View)) =>
        /\ activeAddr = Null <=> tokens = <<>>
        /\ activeAddr # Null => \E i \in 1..Len(tokens) : activeAddr = Some(tokens[i].address)

\* Two tokens have been registered, the tab of the first has been selected
\* and nothing is pending.
C13_Witness ==
    /\ passive = Null
    /\ rendered = Cells(View)
    /\ registration = Null
    /\ Len(tokens) = 2
    /\ ~SameAddress(tokens[1].address, tokens[2].address)
    /\ activeAddr = Some(tokens[1].address)
    /\ storage = Some(tokens)

(***************************************************************************)
(* C14. The keys of the balance store are lowercase addresses of           *)
(* registered tokens: after removeToken the store holds no entry for the   *)
(* removed address while it stays unregistered, also when a refresh for it *)
(* was in flight at the removal and resolves afterwards.                   *)
(* The code does not keep this: the late resolution writes the entry back. *)
(***************************************************************************)
RegisteredKeys ==
    { [k \in 1..Len(tokens[i].address) |-> ToLowerChar(tokens[i].address[k])] :
        i \in 1..Len(tokens) }

C14_BalanceKeysRegistered == DOMAIN balances \subseteq RegisteredKeys

(***************************************************************************)
(* C15. isRefreshing is true in every state in which a refresh is awaiting *)
(* its RPC response, overlapping refreshes included, and false when none   *)
(* is.                                                                     *)
(* The code does not keep this: the first refresh to finish clears the     *)
(* flag while another is still awaiting its response.                      *)
(***************************************************************************)
C15_RefreshingWhileInFlight ==
    /\ Len(refreshes) > 0 => isRefreshing
    /\ Len(refreshes) = 0 => ~isRefreshing

=============================================================================
